---- MODULE Spec2Model ----
(***************************************************************************)
(* ruspiro-mmio-register: register-field arithmetic and the access types   *)
(* ReadOnly / WriteOnly / ReadWrite of src/src/lib.rs.                     *)
(*                                                                         *)
(* A value of the register type T (u8, u16, u32 or u64) is modelled as the *)
(* set of its one-bits, a subset of 0 .. bits-1, so that all four widths   *)
(* (and shift amounts of 2^32 and more, which a u64 can hold) are exact.   *)
(***************************************************************************)
EXTENDS Integers, Sequences, FiniteSets, TLC

VARIABLES
    bits,       \* bit width of the register type T the crate is used with
    checks,     \* TRUE: the build has overflow checks (debug), FALSE: release
    reg,        \* content of the memory cell behind self.ptr
    last,       \* the last call made by the (single) caller and its outcome
    ctx,        \* two execution contexts, each inside one modify call
    hist        \* order of the volatile accesses the two contexts made

vars == <<bits, checks, reg, last, ctx, hist>>

(***************************************************************************)
(* The register types and their integer arithmetic                         *)
(***************************************************************************)

\* registertype_impl![u8, u16, u32, u64]
RegisterTypes == {8, 16, 32, 64}

\* all bit positions of T
AllBits == 0 .. (bits - 1)

\* number of bits of a shift amount that select a position inside T
LogBits == CHOOSE k \in 3 .. 6 : 2 ^ k = bits

\* a literal of the source as a value of T (literals used here are below 2^16)
Lit(n) == {i \in 0 .. 15 : (n \div (2 ^ i)) % 2 = 1} \cap AllBits

RECURSIVE ToNat(_)
\* the number a set of bit positions below 31 stands for
ToNat(s) == IF s = {} THEN 0
            ELSE LET i == CHOOSE j \in s : TRUE IN (2 ^ i) + ToNat(s \ {i})

\* T::bitand, T::bitor, T::not
BitAnd(a, b) == a \cap b
BitOr(a, b) == a \cup b
Not(a) == AllBits \ a

\* x shifted left / right by n positions, bits leaving T are dropped
ShlBy(x, n) == {i + n : i \in x} \cap AllBits
ShrBy(x, n) == {i - n : i \in {j \in x : j >= n}}

\* the shift amount s (a value of T) is not below the width of T
ShiftOverflow(s) == \E i \in s : i >= LogBits

\* `a << s` and `a >> s` of the Shl / Shr impls when they do not panic: the
\* exact shift for s < bits, and the shift by (s mod bits) a build without
\* overflow checks computes otherwise
Shl(a, s) == ShlBy(a, ToNat(s \cap (0 .. (LogBits - 1))))
Shr(a, s) == ShrBy(a, ToNat(s \cap (0 .. (LogBits - 1))))

\* `a << s` / `a >> s` panics ("attempt to shift with overflow")
ShiftPanics(s) == checks /\ ShiftOverflow(s)

\* `s as u32`: the identity for u8, u16, u32 and a truncation for u64
as_u32(s) == s \cap (0 .. 31)

\* T::checked_shl(rhs: u32): None when rhs is not below the width of T
checked_shl(a, rhs) ==
    IF \E i \in rhs : i >= LogBits
    THEN [some |-> FALSE, val |-> {}]
    ELSE [some |-> TRUE, val |-> ShlBy(a, ToNat(rhs))]

\* Option::unwrap_or
unwrap_or(opt, default) == IF opt.some THEN opt.val ELSE default

(***************************************************************************)
(* RegisterField<T> and RegisterFieldValue<T>                              *)
(***************************************************************************)

\* RegisterField::new(mask, shift)
RegisterField_new(mask, shift) == [mask |-> mask, shift |-> shift]

\* RegisterField::mask(&self)
RegisterField_mask(self) ==
    unwrap_or(checked_shl(self.mask, as_u32(self.shift)), {})

\* RegisterField::shift(&self)
RegisterField_shift(self) == self.shift

\* RegisterFieldValue::new(field, value)
RegisterFieldValue_new(field, value) ==
    [field |-> field, value |-> BitAnd(value, field.mask)]

\* FIELD::with_value(value) of define_mmio_register!
with_value(field, value) == RegisterFieldValue_new(field, value)

\* RegisterFieldValue::value(&self)
RegisterFieldValue_value(self) == self.value

\* RegisterFieldValue::raw_value(&self)
RegisterFieldValue_raw_value(self) ==
    unwrap_or(checked_shl(self.value, as_u32(self.field.shift)), {})

\* RegisterFieldValue::mask(&self)
RegisterFieldValue_mask(self) == RegisterField_mask(self.field)

\* | that joins the field-local values instead of the raw values
bitor_unshifted(self, rhs) ==
    LET field == RegisterField_new(
                     BitOr(RegisterField_mask(self.field), RegisterField_mask(rhs.field)), {})
    IN [field |-> field,
        value |-> BitOr(RegisterFieldValue_value(self), RegisterFieldValue_value(rhs))]

\* | that joins the stored masks instead of the positioned masks
bitor_stored_mask(self, rhs) ==
    LET field == RegisterField_new(BitOr(self.field.mask, rhs.field.mask), {})
    IN [field |-> field,
        value |-> BitOr(RegisterFieldValue_raw_value(self), RegisterFieldValue_raw_value(rhs))]

\* impl BitOr for RegisterFieldValue
bitor(self, rhs) ==
    LET field == RegisterField_new(
                     BitOr(RegisterField_mask(self.field), RegisterField_mask(rhs.field)), {})
    IN [field |-> field,
        value |-> BitOr(RegisterFieldValue_raw_value(self), RegisterFieldValue_raw_value(rhs))]

\* impl BitAnd for RegisterFieldValue
bitand(self, rhs) ==
    LET field == RegisterField_new(
                     BitAnd(RegisterField_mask(self.field), RegisterField_mask(rhs.field)), {})
    IN [field |-> field,
        value |-> BitAnd(RegisterFieldValue_raw_value(self), RegisterFieldValue_raw_value(rhs))]

(***************************************************************************)
(* The access types: ReadOnly<T>, WriteOnly<T>, ReadWrite<T>               *)
(*                                                                         *)
(* A method applied to the content `cell` of the memory cell yields the    *)
(* outcome of the call: the content afterwards, the returned T or          *)
(* RegisterFieldValue, the volatile accesses made in order, and whether    *)
(* the call panicked instead of returning.                                 *)
(***************************************************************************)

NoField == RegisterField_new({}, {})
NoFieldValue == [field |-> NoField, value |-> {}]

Outcome(cell, ret, mem) ==
    [reg |-> cell, ret |-> ret, rfv |-> NoFieldValue, hasfv |-> FALSE,
     mem |-> mem, panicked |-> FALSE]

Panic(cell, mem) ==
    [reg |-> cell, ret |-> {}, rfv |-> NoFieldValue, hasfv |-> FALSE,
     mem |-> mem, panicked |-> TRUE]

\* read_volatile(self.ptr)
read_volatile(cell) == Outcome(cell, cell, <<"load">>)

\* write_volatile(self.ptr, value)
write_volatile(cell, value) == Outcome(value, {}, <<"store">>)

\* pub fn get(&self) -> T
get(cell) == read_volatile(cell)

\* read without the shift: val & field.mask
read_unshifted(cell, field) ==
    LET g == read_volatile(cell)
        val == g.ret
    IN IF ShiftPanics(field.shift)
       THEN Panic(g.reg, g.mem)
       ELSE Outcome(g.reg, BitAnd(val, field.mask), g.mem)

\* pub fn read(&self, field: RegisterField<T>) -> T
read(cell, field) ==
    LET g == get(cell)
        val == g.ret
    IN IF ShiftPanics(field.shift)
       THEN Panic(g.reg, g.mem)
       ELSE Outcome(g.reg, BitAnd(Shr(val, field.shift), field.mask), g.mem)

\* pub fn read_value(&self, field: RegisterField<T>) -> RegisterFieldValue<T>
read_value(cell, field) ==
    LET r == read(cell, field)
    IN IF r.panicked THEN r
       ELSE [r EXCEPT !.ret = {}, !.hasfv = TRUE,
                      !.rfv = [field |-> field, value |-> r.ret]]

\* pub fn set(&self, value: T)
set(cell, value) == write_volatile(cell, value)

\* write that keeps the bits already set in the register
write_keep(cell, field, value) ==
    IF ShiftPanics(field.shift)
    THEN Panic(cell, <<>>)
    ELSE LET val == Shl(BitAnd(value, field.mask), field.shift)
         IN set(cell, BitOr(cell, val))

\* pub fn write(&self, field: RegisterField<T>, value: T)
write(cell, field, value) ==
    IF ShiftPanics(field.shift)
    THEN Panic(cell, <<>>)
    ELSE LET val == Shl(BitAnd(value, field.mask), field.shift)
         IN set(cell, val)

\* pub fn write_value(&self, fieldvalue: RegisterFieldValue<T>)
write_value(cell, fieldvalue) == write(cell, fieldvalue.field, fieldvalue.value)

\* new_val with the positioned mask not inverted
modify_new_val_uninverted(old_val, field, value) ==
    BitOr(BitAnd(old_val, Shl(field.mask, field.shift)),
          Shl(BitAnd(value, field.mask), field.shift))

\* new_val of ReadWrite::modify
modify_new_val(old_val, field, value) ==
    BitOr(BitAnd(old_val, Not(Shl(field.mask, field.shift))),
          Shl(BitAnd(value, field.mask), field.shift))

\* modify that returns self.get() after the store instead of new_val
modify_reread(cell, field, value) ==
    LET g == get(cell)
        old_val == g.ret
    IN IF ShiftPanics(field.shift)
       THEN Panic(g.reg, g.mem)
       ELSE LET new_val == modify_new_val(old_val, field, value)
                s == set(g.reg, new_val)
                r == get(s.reg)
            IN Outcome(r.reg, r.ret, g.mem \o s.mem \o r.mem)

\* pub fn modify(&self, field: RegisterField<T>, value: T) -> T
modify(cell, field, value) ==
    LET g == get(cell)
        old_val == g.ret
    IN IF ShiftPanics(field.shift)
       THEN Panic(g.reg, g.mem)
       ELSE LET new_val == modify_new_val(old_val, field, value)
                s == set(g.reg, new_val)
            IN Outcome(s.reg, new_val, g.mem \o s.mem)

\* pub fn modify_value(&self, fieldvalue: RegisterFieldValue<T>) -> RegisterFieldValue<T>
modify_value(cell, fieldvalue) ==
    LET m == modify(cell, fieldvalue.field, fieldvalue.value)
        new_val == m.ret
    IN IF m.panicked THEN m
       ELSE [m EXCEPT !.ret = {}, !.hasfv = TRUE,
                      !.rfv = [field |-> fieldvalue.field, value |-> new_val]]

(***************************************************************************)
(* Inputs of the calls                                                     *)
(***************************************************************************)

\* width in bits of the fields the callers work with: BITS(4)
FieldWidth == 4

\* the mask register_field! builds for a field of FieldWidth bits:
\* (1 << FieldWidth) - 1
FieldMask == (0 .. (FieldWidth - 1)) \cap AllBits

\* field descriptors a caller can build with RegisterField::new, all with
\* the mask FieldMask: at offset 0; at offset 8 (4 in a u8); at offset
\* bits-2, where the mask runs over the top of T; at offset bits, the width
\* of T; and for u64 at offset 2^32 + 8
FLo == RegisterField_new(FieldMask, Lit(0))
FHi == RegisterField_new(FieldMask, IF bits = 8 THEN Lit(4) ELSE Lit(8))
FEdge == RegisterField_new(FieldMask, 1 .. (LogBits - 1))
FOver == RegisterField_new(FieldMask, {LogBits})
FWrap == RegisterField_new(FieldMask, {3, 32})

Fields == {FLo, FHi, FEdge, FOver} \cup (IF bits = 64 THEN {FWrap} ELSE {})

\* values handed to write / modify / new: 0xA, and a value one bit wider
\* than the field (0x1F for a 4-bit field)
Values == {Lit(10), 0 .. FieldWidth}

\* register contents: 0x0F0F, all ones, zero
Contents == {Lit(3855), AllBits, {}}

\* pairs of fields whose values a caller joins by | into one update
JoinedPairs == {<<FLo, FHi>>, <<FLo, FEdge>>, <<FHi, FOver>>}

(***************************************************************************)
(* One caller: every call is one step                                      *)
(***************************************************************************)

Call(op, field, value, fv, fv2, out) ==
    [op |-> op, field |-> field, value |-> value, fv |-> fv, fv2 |-> fv2,
     old |-> reg, ret |-> out.ret, rfv |-> out.rfv, hasfv |-> out.hasfv,
     mem |-> out.mem, panicked |-> out.panicked]

NoCall ==
    [op |-> "none", field |-> NoField, value |-> {}, fv |-> NoFieldValue,
     fv2 |-> NoFieldValue, old |-> {}, ret |-> {}, rfv |-> NoFieldValue,
     hasfv |-> FALSE, mem |-> <<>>, panicked |-> FALSE]

CtxIdle == [c \in {1, 2} |-> [pc |-> "idle", field |-> NoField, value |-> {}, old_val |-> {}]]

Does(op, field, value, fv, fv2, out) ==
    /\ ~last.panicked
    /\ reg' = out.reg
    /\ last' = Call(op, field, value, fv, fv2, out)
    /\ UNCHANGED <<bits, checks, ctx, hist>>

\* a method of RegisterField / RegisterFieldValue: no register involved
Pure(ret) == Outcome(reg, ret, <<>>)
PureFv(rfv) == [Outcome(reg, {}, <<>>) EXCEPT !.hasfv = TRUE, !.rfv = rfv]

\* the ways a caller names a field value in a call: constructed in place
\* (FIELD::with_value(v)), two of those joined by |, or the field value the
\* previous call returned
Made(f, v) == RegisterFieldValue_new(f, v)
MadeJoined(p, v, w) == bitor(Made(p[1], v), Made(p[2], w))

Call_get ==
    /\ Does("get", NoField, {}, NoFieldValue, NoFieldValue, get(reg))

Call_set == \E v \in Contents :
    Does("set", NoField, v, NoFieldValue, NoFieldValue, set(reg, v))

Call_read == \E f \in Fields :
    Does("read", f, {}, NoFieldValue, NoFieldValue, read(reg, f))

Call_read_value == \E f \in Fields :
    Does("read_value", f, {}, NoFieldValue, NoFieldValue, read_value(reg, f))

Call_write == \E f \in Fields, v \in Values :
    Does("write", f, v, NoFieldValue, NoFieldValue, write(reg, f, v))

Do_write_value(fv) ==
    Does("write_value", NoField, {}, fv, NoFieldValue, write_value(reg, fv))

Call_write_value ==
    \/ \E f \in Fields, v \in Values : Do_write_value(Made(f, v))
    \/ \E p \in JoinedPairs, v \in Values, w \in Values : Do_write_value(MadeJoined(p, v, w))
    \/ last.hasfv /\ Do_write_value(last.rfv)

Call_modify == \E f \in Fields, v \in Values :
    Does("modify", f, v, NoFieldValue, NoFieldValue, modify(reg, f, v))

Do_modify_value(fv) ==
    Does("modify_value", NoField, {}, fv, NoFieldValue, modify_value(reg, fv))

Call_modify_value ==
    \/ \E f \in Fields, v \in Values : Do_modify_value(Made(f, v))
    \/ \E p \in JoinedPairs, v \in Values, w \in Values : Do_modify_value(MadeJoined(p, v, w))
    \/ last.hasfv /\ Do_modify_value(last.rfv)

Call_field_mask == \E f \in Fields :
    Does("field_mask", f, {}, NoFieldValue, NoFieldValue, Pure(RegisterField_mask(f)))

Call_field_shift == \E f \in Fields :
    Does("field_shift", f, {}, NoFieldValue, NoFieldValue, Pure(RegisterField_shift(f)))

Call_new == \E f \in Fields, v \in Values :
    Does("new", f, v, NoFieldValue, NoFieldValue, PureFv(RegisterFieldValue_new(f, v)))

Call_with_value == \E f \in Fields, v \in Values :
    Does("with_value", f, v, NoFieldValue, NoFieldValue, PureFv(with_value(f, v)))

Do_value(fv) ==
    Does("value", NoField, {}, fv, NoFieldValue, Pure(RegisterFieldValue_value(fv)))

Call_value ==
    \/ \E f \in Fields, v \in Values : Do_value(Made(f, v))
    \/ last.hasfv /\ Do_value(last.rfv)

Do_raw_value(fv) ==
    Does("raw_value", NoField, {}, fv, NoFieldValue, Pure(RegisterFieldValue_raw_value(fv)))

Call_raw_value ==
    \/ \E f \in Fields, v \in Values : Do_raw_value(Made(f, v))
    \/ last.hasfv /\ Do_raw_value(last.rfv)

Do_mask(fv) ==
    Does("mask", NoField, {}, fv, NoFieldValue, Pure(RegisterFieldValue_mask(fv)))

Call_mask ==
    \/ \E f \in Fields, v \in Values : Do_mask(Made(f, v))
    \/ last.hasfv /\ Do_mask(last.rfv)

Do_bitor(a, b) == Does("bitor", NoField, {}, a, b, PureFv(bitor(a, b)))

Call_bitor == \E g \in Fields, w \in Values :
    \/ \E f \in Fields, v \in Values : Do_bitor(Made(f, v), Made(g, w))
    \/ last.hasfv /\ Do_bitor(last.rfv, Made(g, w))

Do_bitand(a, b) == Does("bitand", NoField, {}, a, b, PureFv(bitand(a, b)))

Call_bitand == \E g \in Fields, w \in Values :
    \/ \E f \in Fields, v \in Values : Do_bitand(Made(f, v), Made(g, w))
    \/ last.hasfv /\ Do_bitand(last.rfv, Made(g, w))

\* a caller that accesses the register
Init ==
    /\ bits \in RegisterTypes
    /\ checks \in BOOLEAN
    /\ reg \in Contents
    /\ last = NoCall
    /\ ctx = CtxIdle
    /\ hist = <<>>

Next ==
    \/ Call_get
    \/ Call_set
    \/ Call_read
    \/ Call_read_value
    \/ Call_write
    \/ Call_write_value
    \/ Call_modify
    \/ Call_modify_value

Spec == Init /\ [][Next]_vars

\* a caller that builds and combines field descriptors and field values
InitField ==
    /\ bits \in RegisterTypes
    /\ checks = FALSE
    /\ reg = {}
    /\ last = NoCall
    /\ ctx = CtxIdle
    /\ hist = <<>>

NextField ==
    \/ Call_field_mask
    \/ Call_field_shift
    \/ Call_new
    \/ Call_with_value
    \/ Call_value
    \/ Call_raw_value
    \/ Call_mask
    \/ Call_bitor
    \/ Call_bitand

SpecField == InitField /\ [][NextField]_vars

(***************************************************************************)
(* Two execution contexts (threads or interrupt handlers), each calling    *)
(* modify(field, value) once on the same ReadWrite register.  The load and *)
(* the store of a call are separate steps; no lock is taken between them.  *)
(***************************************************************************)

Contexts == {1, 2}

\* new_val computed from the register content at the time of the store
race_new_val_reread(c) == modify_new_val(reg, ctx[c].field, ctx[c].value)

\* the value context c stores: new_val, computed from the old_val it loaded
race_new_val(c) == modify_new_val(ctx[c].old_val, ctx[c].field, ctx[c].value)

\* let old_val = self.get();
Race_load(c) ==
    /\ ctx[c].pc = "start"
    /\ LET g == get(reg)
       IN /\ ctx' = [ctx EXCEPT ![c].pc = "loaded", ![c].old_val = g.ret]
          /\ reg' = g.reg
    /\ hist' = Append(hist, <<c, "load">>)
    /\ UNCHANGED <<bits, checks, last>>

\* let new_val = ...; self.set(new_val); new_val
Race_store(c) ==
    /\ ctx[c].pc = "loaded"
    /\ IF ShiftPanics(ctx[c].field.shift)
       THEN /\ ctx' = [ctx EXCEPT ![c].pc = "panicked"]
            /\ UNCHANGED <<reg, hist>>
       ELSE /\ reg' = set(reg, race_new_val(c)).reg
            /\ ctx' = [ctx EXCEPT ![c].pc = "done"]
            /\ hist' = Append(hist, <<c, "store">>)
    /\ UNCHANGED <<bits, checks, last>>

InitRace ==
    /\ bits \in RegisterTypes
    /\ checks \in BOOLEAN
    /\ reg \in Contents
    /\ last = NoCall
    /\ ctx \in [Contexts -> {[pc |-> "start", field |-> f, value |-> v, old_val |-> {}] :
                                f \in Fields, v \in Values}]
    /\ hist = <<>>

NextRace == \E c \in Contexts : Race_load(c) \/ Race_store(c)

SpecRace == InitRace /\ [][NextRace]_vars

(***************************************************************************)
(* Properties                                                              *)
(***************************************************************************)

\* the field lies inside T: its offset is below the width of T and no bit
\* of its mask is shifted out
Fits(f) ==
    /\ ~ShiftOverflow(f.shift)
    /\ \A i \in f.mask : i + ToNat(f.shift) < bits

\* x moved to the offset of field f (an offset below the width of T)
Positioned(x, f) == {i + ToNat(f.shift) : i \in x} \cap AllBits

\* the positioned masks of two fields share no bit
NonOverlapping(f, g) == RegisterField_mask(f) \cap RegisterField_mask(g) = {}

Returned(op) == last.op = op /\ ~last.panicked

\* C1: modify(field, v) on a field that fits in T leaves every bit outside
\* field.mask() as it was before the call.
C1_ModifyPreservesOutside ==
    (Returned("modify") /\ Fits(last.field)) =>
        reg \ RegisterField_mask(last.field) = last.old \ RegisterField_mask(last.field)

\* C1 witness: a u16 register holding 0x0F0F holds 0x0A0F after
\* modify(field 0xF at offset 8, 0xA).
C1_Witness ==
    /\ bits = 16 /\ Returned("modify")
    /\ last.old = Lit(3855) /\ last.field = FHi /\ last.value = Lit(10)
    /\ reg = Lit(2575)

\* C2: write(field, v) directly followed by read(field), for a field that
\* fits in T, returns v & mask.
C2_WriteReadRoundTrip ==
    [][(/\ Returned("write")
        /\ last'.op = "read" /\ ~last'.panicked
        /\ last'.field = last.field
        /\ Fits(last.field))
       => last'.ret = last.value \cap last.field.mask]_vars

\* C2 witness: read(field 0xF at offset 8) returns 0xF from the content
\* 0x0F00 that write(field, 0x1F) stores.
C2_Witness ==
    /\ bits = 16 /\ Returned("read")
    /\ last.field = FHi /\ last.old = Positioned(Lit(31) \cap FHi.mask, FHi)
    /\ last.ret = Lit(15)

C4_Original ==
    Returned("raw_value") =>
    \A f1 \in Fields, f2 \in Fields, v1 \in Values, v2 \in Values :
        (/\ Fits(f1) /\ Fits(f2) /\ NonOverlapping(f1, f2)
         /\ last.fv = bitor(RegisterFieldValue_new(f1, v1), RegisterFieldValue_new(f2, v2)))
        => last.ret = Positioned(v1, f1) \cup Positioned(v2, f2)

\* C4 amended: for non-overlapping fields f1, f2 that fit in T and any v1,
\* v2, (new(f1, v1) | new(f2, v2)).raw_value() is ((v1 & mask1) << shift1)
\* | ((v2 & mask2) << shift2).
C4_ComposedRawValue ==
    Returned("raw_value") =>
    \A f1 \in Fields, f2 \in Fields, v1 \in Values, v2 \in Values :
        (/\ Fits(f1) /\ Fits(f2) /\ NonOverlapping(f1, f2)
         /\ last.fv = bitor(RegisterFieldValue_new(f1, v1), RegisterFieldValue_new(f2, v2)))
        => last.ret = Positioned(v1 \cap f1.mask, f1) \cup Positioned(v2 \cap f2.mask, f2)

\* C4 witness: in u16, (new(0xF at 0, 0x1F) | new(0xF at 8, 0xA)).raw_value()
\* returned 0x0A0F.
C4_Witness ==
    /\ bits = 16 /\ Returned("raw_value")
    /\ last.fv = bitor(RegisterFieldValue_new(FLo, Lit(31)), RegisterFieldValue_new(FHi, Lit(10)))
    /\ last.ret = Lit(2575)

\* C5 as stated: every RegisterFieldValue a call returns has its value
\* inside its own field's stored mask.
C5_Original ==
    (last.hasfv /\ ~last.panicked) => last.rfv.value \ last.rfv.field.mask = {}

\* C6: when both contexts loaded the register before either stored, on
\* non-overlapping fields that fit in T, the register afterwards holds the
\* update of the context that stored last only: the other context's field
\* and all bits outside both fields have the content that was loaded.
C6_LostUpdate ==
    (/\ ctx[1].pc = "done" /\ ctx[2].pc = "done"
     /\ Len(hist) = 4 /\ hist[1][2] = "load" /\ hist[2][2] = "load"
     /\ Fits(ctx[1].field) /\ Fits(ctx[2].field)
     /\ NonOverlapping(ctx[1].field, ctx[2].field))
    => LET w == hist[4][1]
           old == ctx[w].old_val
           mine == RegisterField_mask(ctx[w].field)
       IN /\ reg \cap mine = Positioned(ctx[w].value \cap ctx[w].field.mask, ctx[w].field)
          /\ reg \ mine = old \ mine

\* C6 witness: both contexts are done, the one that stored first wrote a
\* field content other than the old one, and its field holds the old content.
C6_Witness ==
    /\ ctx[1].pc = "done" /\ ctx[2].pc = "done"
    /\ Len(hist) = 4 /\ hist[1][2] = "load" /\ hist[2][2] = "load"
    /\ Fits(ctx[1].field) /\ Fits(ctx[2].field)
    /\ NonOverlapping(ctx[1].field, ctx[2].field)
    /\ LET o == hist[3][1]
           lost == RegisterField_mask(ctx[o].field)
       IN /\ hist[4][1] # o
          /\ ctx[o].old_val \cap lost # Positioned(ctx[o].value \cap ctx[o].field.mask, ctx[o].field)
          /\ reg \cap lost = ctx[o].old_val \cap lost

\* C7 as stated: for a shift that is at least the width of T,
\* RegisterField::new(mask, shift).mask() is 0 and
\* RegisterFieldValue::new(field, v).raw_value() is 0.
C7_Original ==
    /\ (Returned("field_mask") /\ ShiftOverflow(last.field.shift)) => last.ret = {}
    /\ Returned("raw_value") => \A f \in Fields, v \in Values :
          (ShiftOverflow(f.shift) /\ last.fv = RegisterFieldValue_new(f, v))
          => last.ret = {}

\* C8: modify_value(new(f1, v1) | new(f2, v2)), for non-overlapping fields
\* that fit in T, leaves the register as modify(f1, v1) followed by
\* modify(f2, v2) does: both fields hold their masked values and the bits
\* outside both fields are unchanged.
C8_ComposedModify ==
    Returned("modify_value") =>
    \A f1 \in Fields, f2 \in Fields, v1 \in Values, v2 \in Values :
        (/\ Fits(f1) /\ Fits(f2) /\ NonOverlapping(f1, f2)
         /\ last.fv = bitor(RegisterFieldValue_new(f1, v1), RegisterFieldValue_new(f2, v2)))
        => LET both == RegisterField_mask(f1) \cup RegisterField_mask(f2)
           IN /\ reg = modify(modify(last.old, f1, v1).reg, f2, v2).reg
              /\ reg \cap RegisterField_mask(f1) = Positioned(v1 \cap f1.mask, f1)
              /\ reg \cap RegisterField_mask(f2) = Positioned(v2 \cap f2.mask, f2)
              /\ reg \ both = last.old \ both

\* C8 witness: a u16 register holding 0x0F0F holds 0x0A0F after
\* modify_value(new(0xF at 0, 0x1F) | new(0xF at 8, 0xA)).
C8_Witness ==
    /\ bits = 16 /\ Returned("modify_value")
    /\ last.old = Lit(3855)
    /\ last.fv = bitor(RegisterFieldValue_new(FLo, Lit(31)), RegisterFieldValue_new(FHi, Lit(10)))
    /\ reg = Lit(2575)

\* C9 as stated, on fields that fit in T: after write_value(fv) the register
\* holds fv.raw_value().
C9_Original ==
    (Returned("write_value") /\ Fits(last.fv.field)) =>
        reg = RegisterFieldValue_raw_value(last.fv)

====
